---- MODULE Spec2Model ----
(***************************************************************************)
(* Model of the real-estate scrapper (scrapper/base_scrapper.py) and of    *)
(* the record flattener (scrapper/json_to_pd.py).                          *)
(*                                                                         *)
(* Strings are sequences of one-character strings.  Python's None and an   *)
(* unbound local variable are tagged records, so that every variable keeps *)
(* one shape.  A Python dict is a sequence of <<key, value>> pairs with    *)
(* distinct keys, in insertion order.                                      *)
(***************************************************************************)
EXTENDS Integers, Sequences, FiniteSets, TLC

(* ------------------------------ bounds -------------------------------- *)

\* most detail links one listing page carries
MaxLinks == 2
\* largest num_pages handed to paginate_urls
MaxPages == 12

\* most feature tables a detail page carries
MaxTables == 2
\* most records handed to normalize_data
MaxRecords == 2
\* most <li> items the main feature list of a detail page carries
MaxItems == 2
\* most words the text of an <li> carries
MaxTextLen == 2

\* main_scrapper: self.paginate_urls(num_pages=5)
NumPages == 5

(* ------------------------------ strings ------------------------------- *)

Digit == <<"0", "1", "2", "3", "4", "5", "6", "7", "8", "9">>

RECURSIVE IntToStr(_)
\* f"{i}" for an int i >= 0: its decimal digits, most significant first
IntToStr(n) ==
    IF n < 10 THEN <<Digit[n + 1]>>
    ELSE IntToStr(n \div 10) \o <<Digit[(n % 10) + 1]>>

PagMarker == <<"&", "p", "a", "g", "=">>

\* self.base_url + f"&pag={i}"
PageUrl(base, k) == base \o PagMarker \o IntToStr(k)

\* range(2, num_pages): the loop stops one page short
LastPageExclusive(num_pages) == num_pages - 1

\* range(2, num_pages + 1): the last value the loop variable takes
LastPage(num_pages) == num_pages

RECURSIVE PaginateFrom(_, _, _, _)
PaginateFrom(base, k, last, urls) ==
    IF k > last THEN urls
    ELSE PaginateFrom(base, k + 1, last, Append(urls, PageUrl(base, k)))

\* paginate_urls as one call (used by main_scrapper)
paginate_urls(base, num_pages) ==
    PaginateFrom(base, 2, LastPage(num_pages), <<base>>)

(* --------------------------- python values ----------------------------- *)

\* a local variable that was never assigned
Unbound == [src |-> <<0, 0>>, missing |-> "unbound"]

\* the value None, where a list of records is expected
None == [none |-> TRUE, list |-> <<>>]

Some(records) == [none |-> FALSE, list |-> records]

\* the href of the k-th media object of listing page p
DetailURL(p, k) == <<p, k>>

\* what a detail page may lack: nothing, or the markers of one extraction step
Missing == {"none", "main", "description", "table"}

(* ------------------------------ state ---------------------------------- *)

VARIABLES
    \* RealEstateScrapper.paginate_urls
    pg_pc, pg_num_pages, pg_i, pg_urls,
    \* RealEstateScrapper.main_scrapper
    pc, base_url, urls_to_scrape, i, entire_ad_info_dict, individual_ad_urls,
    individual_details,
    \* how the request of the listing page last visited ended
    listing_outcome,
    \* RealEstateScrapper.individual_ad_scrapper
    u, pages_content, page_request,
    \* RealEstateScrapper.get_individual_ad_main_info
    mi_pc, soup, ad_main_info, li, mi_written,
    \* normalize_data
    fl_pc, data, nested_idx, item_idx, normalized_data, key_value,
    \* history: the pages the records of data were built from
    origin,
    \* get_individual_ad_table_info and the building of single_page_content
    rc_pc, detail_soup, table_idx, additional_info, single_page_content,
    \* history: the responses to the detail requests of the current listing page,
    \* and what became of each listing page so far
    responses, page_log

pgvars == <<pg_pc, pg_num_pages, pg_i, pg_urls>>
runvars == <<pc, listing_outcome, urls_to_scrape, i, entire_ad_info_dict, individual_ad_urls,
             individual_details, u, pages_content, page_request, responses, page_log>>
mivars == <<mi_pc, soup, ad_main_info, li, mi_written>>
flvars == <<fl_pc, data, nested_idx, item_idx, normalized_data, key_value, origin>>
rcvars == <<rc_pc, detail_soup, table_idx, additional_info, single_page_content>>
vars == <<pgvars, base_url, runvars, mivars, flvars, rcvars>>

BaseUrls == { <<"h", "?", "c">>, <<"h">>, <<"h", "&", "p", "a", "g", "=", "2">> }

RunBaseUrl == <<"h", "?", "c">>

PgIdle ==
    /\ pg_pc = "idle"
    /\ pg_num_pages = 0
    /\ pg_i = 0
    /\ pg_urls = <<>>

RunIdle ==
    /\ pc = "idle"
    /\ listing_outcome = "none"
    /\ urls_to_scrape = <<>>
    /\ i = 0
    /\ entire_ad_info_dict = <<>>
    /\ individual_ad_urls = <<>>
    /\ individual_details = None
    /\ u = 0
    /\ pages_content = <<>>
    /\ page_request = Unbound
    /\ responses = <<>>
    /\ page_log = <<>>

\* no <li> is being handled
NoItem == [text |-> <<>>, labelled |-> FALSE, label |-> <<>>, seen |-> FALSE]

MiIdle ==
    /\ mi_pc = "idle"
    /\ soup = [title |-> FALSE, list |-> FALSE, items |-> 0]
    /\ ad_main_info = <<>>
    /\ li = NoItem
    /\ mi_written = {}

\* a str
Str(x) == [kind |-> "str", val |-> <<x>>, items |-> <<>>]

\* a list of str
List(xs) == [kind |-> "list", val |-> xs, items |-> <<>>]

\* a dict, its entries in insertion order
Dict(entries) == [kind |-> "dict", val |-> <<>>, items |-> entries]

\* the loop variables key and value of normalize_data before their first binding
UnboundKeyValue == [bound |-> FALSE, key |-> "", value |-> Str("")]

FlIdle ==
    /\ fl_pc = "idle"
    /\ data = <<>>
    /\ nested_idx = 0
    /\ item_idx = 0
    /\ normalized_data = <<>>
    /\ key_value = UnboundKeyValue
    /\ origin = <<>>

\* no detail page is being turned into a record
RcIdle ==
    /\ rc_pc = "idle"
    /\ detail_soup = [titles |-> <<>>, tables |-> <<>>]
    /\ table_idx = 0
    /\ additional_info = <<>>
    /\ single_page_content = <<>>

(* --------------------------- paginate_urls ----------------------------- *)

\* RealEstateScrapper(base_url), before paginate_urls is called
PaginateInit ==
    /\ base_url \in BaseUrls
    /\ PgIdle
    /\ RunIdle
    /\ MiIdle
    /\ FlIdle
    /\ RcIdle

\* urls = []; urls.append(self.base_url)
PaginateCall ==
    /\ pg_pc = "idle"
    /\ \E n \in 0..MaxPages :
        /\ pg_num_pages' = n
        /\ pg_urls' = <<base_url>>
        /\ pg_i' = 2
        /\ pg_pc' = "loop"
    /\ UNCHANGED <<base_url, runvars, mivars, flvars, rcvars>>

\* one iteration of: for i in range(2, num_pages + 1)
PaginateLoop ==
    /\ pg_pc = "loop"
    /\ pg_i <= LastPage(pg_num_pages)
    /\ pg_urls' = Append(pg_urls, PageUrl(base_url, pg_i))
    /\ pg_i' = pg_i + 1
    /\ UNCHANGED <<pg_pc, pg_num_pages, base_url, runvars, mivars, flvars, rcvars>>

\* return urls
PaginateReturn ==
    /\ pg_pc = "loop"
    /\ pg_i > LastPage(pg_num_pages)
    /\ pg_pc' = "done"
    /\ UNCHANGED <<pg_num_pages, pg_i, pg_urls, base_url, runvars, mivars, flvars, rcvars>>

PaginateNext == PaginateCall \/ PaginateLoop \/ PaginateReturn

SpecPaginate == PaginateInit /\ [][PaginateNext]_vars

(* ---------------------- individual_ad_scrapper -------------------------- *)

\* the three extraction steps on a parsed page: each raises when the page lacks
\* its markers, and the bare except around them raises again
ExtractionRaises(doc) == doc.missing # "none"

\* single_page_content of the url being visited, built from the parsed page:
\* "details" carries the url of the loop, everything else comes from the page
SinglePageContent(url, doc) == [url |-> url, src |-> doc.src]

\* what requests.get(url) may do: raise, or answer with a page
DetailResponses(url) ==
    {[fetch |-> "raises", src |-> url, missing |-> "none"]}
    \cup {[fetch |-> "ok", src |-> url, missing |-> m] : m \in Missing}

\* page_request after the try around requests.get: the except clause only
\* prints, so a failed request leaves the variable as it was
PageRequestAfter(old, resp) ==
    IF resp.fetch = "ok" THEN [src |-> resp.src, missing |-> resp.missing] ELSE old

\* the loop body raises: page_request.text of an unbound page_request, or a
\* failed extraction step
IterationRaises(pr) == pr = Unbound \/ ExtractionRaises(pr)

\* except Exception as e: builds a RequestException without raising it, and the
\* function ends without a return statement
AdScrapperOnException(content) == None

\* pages_content.append(single_page_content) placed before the list
PrependRecord(content, rec) == <<rec>> \o content

\* pages_content.append(single_page_content)
AppendRecord(content, rec) == Append(content, rec)

(* --------------------------- main_scrapper ------------------------------ *)

\* entire_ad_info_dict.insert(0, individual_details)
PrependDetails(entire, details) ==
    IF details.none THEN entire ELSE <<details.list>> \o entire

\* if individual_details != None: entire_ad_info_dict.append(individual_details)
AppendDetails(entire, details) ==
    IF details.none THEN entire ELSE Append(entire, details.list)

\* the handler leaves the loop
BreakAfterFailure(page) == NumPages + 1

\* the bare except ends the iteration of the failed page: the loop goes on
NextAfterFailure(page) == page + 1

\* the handler raises the RequestException it builds
OuterExceptRaises == FALSE

\* except: requests.exceptions.RequestException(...) catches whatever the page
\* raised, builds an exception and drops it
OuterExceptSwallows == TRUE

\* what the request of a listing page may give
ListingOutcomes == {"raises", "status", "no_links", "no_anchor"}

\* control after the iteration of page i has ended
AfterPage(next) == IF next > NumPages THEN "done" ELSE "main_loop"

RunInit ==
    /\ base_url = RunBaseUrl
    /\ PgIdle
    /\ pc = "main_loop"
    /\ listing_outcome = "none"
    /\ urls_to_scrape = paginate_urls(base_url, NumPages)
    /\ i = 1
    /\ entire_ad_info_dict = <<>>
    /\ individual_ad_urls = <<>>
    /\ individual_details = None
    /\ u = 0
    /\ pages_content = <<>>
    /\ page_request = Unbound
    /\ responses = <<>>
    /\ page_log = <<>>
    /\ MiIdle
    /\ FlIdle
    /\ RcIdle

\* the iteration of a listing page that fails: requests.get raises, the status
\* is not 200, no media object is found, or a media object has no anchor.
\* Every one of them ends in the bare except of the loop body.
ListingFails ==
    /\ pc = "main_loop"
    /\ listing_outcome' \in ListingOutcomes
    /\ page_log' = Append(page_log, [failed |-> TRUE, details |-> None])
    /\ individual_ad_urls' = <<>>
    /\ responses' = <<>>
    /\ IF OuterExceptSwallows
       THEN /\ i' = NextAfterFailure(i)
            /\ pc' = AfterPage(i')
       ELSE /\ i' = i
            /\ pc' = "crashed"
    /\ UNCHANGED <<entire_ad_info_dict, individual_details, u, pages_content,
                   page_request, base_url, pgvars, mivars, flvars, rcvars, urls_to_scrape>>

\* the listing page answers 200 and carries n >= 1 links:
\* individual_ad_scrapper(individual_ad_urls) is entered
ListingLinks ==
    /\ pc = "main_loop"
    /\ \E n \in 1..MaxLinks :
        individual_ad_urls' = [k \in 1..n |-> DetailURL(i, k)]
    /\ pages_content' = <<>>
    /\ page_request' = Unbound
    /\ u' = 1
    /\ responses' = <<>>
    /\ pc' = "ad_loop"
    /\ listing_outcome' = "links"
    /\ UNCHANGED <<i, entire_ad_info_dict, individual_details, page_log,
                   base_url, pgvars, mivars, flvars, rcvars, urls_to_scrape>>

\* individual_ad_scrapper returns `result` to main_scrapper, which appends it
\* unless it is None and goes on to the next listing page
ReturnToMain(result) ==
    /\ individual_details' = result
    /\ entire_ad_info_dict' = AppendDetails(entire_ad_info_dict, result)
    /\ page_log' = Append(page_log, [failed |-> FALSE, details |-> result])
    /\ i' = i + 1
    /\ pc' = AfterPage(i')

\* one iteration of `for url in urls` that appends a record
AdVisited ==
    /\ pc = "ad_loop"
    /\ \E resp \in DetailResponses(individual_ad_urls[u]) :
        /\ page_request' = PageRequestAfter(page_request, resp)
        /\ responses' = Append(responses, resp)
    /\ ~IterationRaises(page_request')
    /\ pages_content' =
          AppendRecord(pages_content, SinglePageContent(individual_ad_urls[u], page_request'))
    /\ u' = u + 1
    /\ IF u' > Len(individual_ad_urls)
       THEN ReturnToMain(Some(pages_content'))
       ELSE UNCHANGED <<individual_details, entire_ad_info_dict, page_log, i, pc>>
    /\ UNCHANGED <<individual_ad_urls, listing_outcome, base_url, pgvars, mivars,
                   flvars, rcvars, urls_to_scrape>>

\* one iteration of `for url in urls` that raises: the outer except of
\* individual_ad_scrapper ends the function
AdRaises ==
    /\ pc = "ad_loop"
    /\ \E resp \in DetailResponses(individual_ad_urls[u]) :
        /\ page_request' = PageRequestAfter(page_request, resp)
        /\ responses' = Append(responses, resp)
    /\ IterationRaises(page_request')
    /\ ReturnToMain(AdScrapperOnException(pages_content))
    /\ UNCHANGED <<u, pages_content, individual_ad_urls, listing_outcome, base_url, pgvars,
                   mivars, flvars, rcvars, urls_to_scrape>>

Next == ListingFails \/ ListingLinks \/ AdVisited \/ AdRaises

Spec == RunInit /\ [][Next]_vars

\* the interpreter runs the single thread until main_scrapper returns
FairSpec == Spec /\ WF_vars(Next)

(* -------------------- get_individual_ad_main_info ---------------------- *)

\* The text of an <li> and its aria-label are sequences of words; `x in text`
\* is the presence of the word x, and a blank is a word of its own.
TextWords == {"€", "m²", "piano", "bagni", "classe", "anno", "stato", "da", " ", "x"}

LabelWords == {"locali", "locale", "tipologie", "y"}

SeqsUpTo(S, n) == UNION {[1..m -> S] : m \in 0..n}

\* the <li> items a feature list may carry, with texts of up to `most` words:
\* an item has an aria-label or none
Items(most) ==
    {[text |-> t, labelled |-> TRUE, label |-> l, seen |-> TRUE] :
        t \in SeqsUpTo(TextWords, most), l \in SeqsUpTo(LabelWords, 1)}
    \cup {[text |-> t, labelled |-> FALSE, label |-> <<>>, seen |-> TRUE] :
        t \in SeqsUpTo(TextWords, most)}

\* x in str
In(x, str) == \E n \in 1..Len(str) : str[n] = x

RECURSIVE LStrip(_)
LStrip(str) ==
    IF Len(str) > 0 /\ Head(str) = " " THEN LStrip(Tail(str)) ELSE str

RECURSIVE RStrip(_)
RStrip(str) ==
    IF Len(str) > 0 /\ str[Len(str)] = " "
    THEN RStrip(SubSeq(str, 1, Len(str) - 1)) ELSE str

\* str.strip()
Strip(str) == RStrip(LStrip(str))

IsNot(x, y) == x # y

\* str.replace(old, "")
Remove(str, old) == SelectSeq(str, LAMBDA w : IsNot(w, old))

\* d[key]
DictHas(d, key) == \E n \in 1..Len(d) : d[n][1] = key

DictGet(d, key) == d[CHOOSE n \in 1..Len(d) : d[n][1] = key][2]

\* d[key] = value: a key already present keeps its place
DictSet(d, key, value) ==
    IF DictHas(d, key)
    THEN [n \in 1..Len(d) |-> IF d[n][1] = key THEN <<key, value>> ELSE d[n]]
    ELSE Append(d, <<key, value>>)

DictKeys(d) == {d[n][1] : n \in 1..Len(d)}

Assign(slot, value) == [raises |-> FALSE, slot |-> slot, value |-> value]

\* li["aria-label"] of an item without the attribute: KeyError
KeyError == [raises |-> TRUE, slot |-> "", value |-> <<>>]

\* the if/elif chain from its second branch on, which reads li["aria-label"]
ClassifyLabelled(item) ==
    IF In("locali", item.label) \/ In("locale", item.label)
        THEN Assign("rooms", Strip(item.text))
    ELSE IF In("m²", item.text)
        THEN Assign("area", Remove(Strip(item.text), "da"))
    ELSE IF In("piano", item.text) THEN Assign("floor", Strip(item.text))
    ELSE IF In("bagni", item.text) THEN Assign("bathrooms", Strip(item.text))
    ELSE IF In("classe", item.text) THEN Assign("energy_class", Strip(item.text))
    ELSE IF In("anno", item.text) THEN Assign("year", Strip(item.text))
    ELSE IF In("stato", item.text) THEN Assign("state", Strip(item.text))
    ELSE IF In("tipologie", item.label) THEN Assign("type", Strip(item.text))
    ELSE Assign("other_info", Strip(item.text) \o <<" ">> \o item.label)

\* the body of `for li in raw_ad_main_info`: the slot and the value it assigns,
\* or the exception it raises
Classify(item) ==
    IF In("€", item.text) THEN Assign("price", Strip(item.text))
    ELSE IF ~item.labelled THEN KeyError
    ELSE ClassifyLabelled(item)

PageTitle == <<"T">>

PageUrlOfAd == <<"u">>

\* a parsed detail page handed to get_individual_ad_main_info
MainInfoInit ==
    /\ base_url = RunBaseUrl
    /\ PgIdle
    /\ RunIdle
    /\ FlIdle
    /\ RcIdle
    /\ mi_pc = "begin"
    /\ soup \in [title : BOOLEAN, list : BOOLEAN, items : 0..MaxItems]
    /\ ad_main_info = <<>>
    /\ li = NoItem
    /\ mi_written = {}

\* the title block and the feature list are found: title and url are set
MainInfoBegin ==
    /\ mi_pc = "begin"
    /\ soup.title /\ soup.list
    /\ ad_main_info' = DictSet(DictSet(<<>>, "title", Strip(PageTitle)), "url", PageUrlOfAd)
    /\ mi_written' = {"title", "url"}
    /\ mi_pc' = "loop"
    /\ UNCHANGED <<soup, li, base_url, pgvars, runvars, flvars, rcvars>>

\* soup.find(...) gives None for the title block or for the feature list:
\* AttributeError, turned into Exception by the bare except
MainInfoMarkerMissing ==
    /\ mi_pc = "begin"
    /\ ~(soup.title /\ soup.list)
    /\ ad_main_info' = IF soup.title
                       THEN DictSet(DictSet(<<>>, "title", Strip(PageTitle)), "url", PageUrlOfAd)
                       ELSE <<>>
    /\ mi_written' = DictKeys(ad_main_info')
    /\ mi_pc' = "raised"
    /\ UNCHANGED <<soup, li, base_url, pgvars, runvars, flvars, rcvars>>

\* one iteration of `for li in raw_ad_main_info`
MainInfoItem ==
    /\ mi_pc = "loop"
    /\ soup.items > 0
    /\ \E item \in Items(MaxTextLen) :
        /\ li' = item
        /\ LET c == Classify(item) IN
            IF c.raises
            THEN /\ mi_pc' = "raised"
                 /\ mi_written' = {}
                 /\ UNCHANGED ad_main_info
            ELSE /\ mi_pc' = "loop"
                 /\ mi_written' = {c.slot}
                 /\ ad_main_info' = DictSet(ad_main_info, c.slot, c.value)
    /\ soup' = [soup EXCEPT !.items = @ - 1]
    /\ UNCHANGED <<base_url, pgvars, runvars, flvars, rcvars>>

\* return ad_main_info
MainInfoReturn ==
    /\ mi_pc = "loop"
    /\ soup.items = 0
    /\ mi_pc' = "returned"
    /\ UNCHANGED <<soup, ad_main_info, li, mi_written, base_url, pgvars, runvars, flvars, rcvars>>

MainInfoNext ==
    MainInfoBegin \/ MainInfoMarkerMissing \/ MainInfoItem \/ MainInfoReturn

SpecMainInfo == MainInfoInit /\ [][MainInfoNext]_vars

(* ----------------------------- normalize_data -------------------------- *)

\* single_page_content as individual_ad_scrapper builds it: "details",
\* "description", then one key per feature table
BuildRecord(main, description, tables) ==
    LET RECURSIVE WithTables(_, _)
        WithTables(content, rest) ==
            IF Len(rest) = 0 THEN content
            ELSE WithTables(DictSet(content, Head(rest)[1], Head(rest)[2]), Tail(rest))
    IN WithTables(
           DictSet(DictSet(<<>>, "details", Dict(main)), "description", Dict(description)),
           tables)

RECURSIVE FoldSub(_, _)
\* for sub_key, sub_value in value.items(): flattened_item[sub_key] = sub_value
FoldSub(entries, flat) ==
    IF Len(entries) = 0 THEN flat
    ELSE FoldSub(Tail(entries), DictSet(flat, Head(entries)[1], Head(entries)[2]))

RECURSIVE FoldInner(_, _)
\* for key, value in sub_dict.items(): binds key and value, then assigns
FoldInner(entries, st) ==
    IF Len(entries) = 0 THEN st
    ELSE LET k == Head(entries)[1]
             v == Head(entries)[2]
         IN FoldInner(Tail(entries),
                [st EXCEPT !.kv = [bound |-> TRUE, key |-> k, value |-> v],
                           !.flat = IF v.kind = "dict" THEN FoldSub(v.items, @)
                                    ELSE DictSet(@, k, v)])

RECURSIVE FoldTop(_, _)
\* for sub_dict in item.values(): a dict is folded in; any other value runs
\* flattened_item[key] = value with the key and value the function last bound,
\* which raises UnboundLocalError when it has bound none yet
FoldTop(entries, st) ==
    IF Len(entries) = 0 \/ st.raised THEN st
    ELSE LET sub_dict == Head(entries)[2] IN
         FoldTop(Tail(entries),
            IF sub_dict.kind = "dict" THEN FoldInner(sub_dict.items, st)
            ELSE IF ~st.kv.bound THEN [st EXCEPT !.raised = TRUE]
            ELSE [st EXCEPT !.flat = DictSet(@, st.kv.key, st.kv.value)])

\* the body of `for item in nested_list`, from flattened_item = {} on
FlattenItem(record, kv) ==
    FoldTop(record, [flat |-> <<>>, kv |-> kv, raised |-> FALSE])

\* ad_main_info of a page with a title, a url and a floor item
MainInfo == <<<<"title", Str("mt")>>, <<"url", Str("u")>>, <<"floor", Str("mf")>>>>

\* description_info of a page
DescriptionInfo == <<<<"title", Str("dt")>>, <<"content", Str("dc")>>>>

TableMark == <<"t1", "t2", "t3", "t4">>

\* table_info of the k-th feature table of a page: two plain entries and the
\* list of "altre caratteristiche"
TableInfo(k) ==
    <<<<"floor", Str(TableMark[k])>>,
      <<"title", Str(TableMark[k])>>,
      <<"altre caratteristiche", List(<<"a", TableMark[k]>>)>>>>

\* the lower-cased headings a feature table may have
TableNames == {"costi", "details", "description"}

\* ad_table_info: up to MaxTables tables under distinct names
TableDicts ==
    UNION { { [k \in 1..n |-> <<names[k], Dict(TableInfo(k))>>] :
                names \in { t \in [1..n -> TableNames] :
                              \A a, b \in 1..n : a # b => t[a] # t[b] } } :
            n \in 0..MaxTables }

\* the pages a record may come from
Pages ==
    { [page |-> TRUE, main |-> MainInfo, description |-> DescriptionInfo,
       tables |-> t, raw |-> <<>>] : t \in TableDicts }

RawRecord(content) ==
    [page |-> FALSE, main |-> <<>>, description |-> <<>>, tables |-> <<>>, raw |-> content]

\* records that did not come from the scrapper: top-level values that are a
\* scalar, a list or a mapping, alone or after or before a mapping
RawRecords ==
    { RawRecord(<<<<"a", Str("s")>>>>),
      RawRecord(<<<<"a", List(<<"l">>)>>>>),
      RawRecord(<<<<"a", Dict(<<<<"k", Str("v")>>>>)>>>>),
      RawRecord(<<<<"a", Dict(<<<<"k", Str("v")>>>>)>>, <<"b", Str("s")>>>>),
      RawRecord(<<<<"a", Dict(<<<<"k", Str("v")>>>>)>>, <<"b", List(<<"l">>)>>>>),
      RawRecord(<<<<"a", Str("s")>>, <<"b", Dict(<<<<"k", Str("v")>>>>)>>>>) }

RecordOf(o) ==
    IF o.page THEN BuildRecord(o.main, o.description, o.tables) ELSE o.raw

\* up to `most` records, in one inner list or in one inner list each
Origins(most) ==
    LET lists == UNION { [1..n -> Pages \cup RawRecords] : n \in 1..most }
    IN { <<l>> : l \in lists } \cup { [n \in 1..Len(l) |-> <<l[n]>>] : l \in lists }

\* normalize_data(data) is entered: normalized_data = []
NormalizeInit ==
    /\ base_url = RunBaseUrl
    /\ PgIdle
    /\ RunIdle
    /\ MiIdle
    /\ RcIdle
    /\ origin \in Origins(MaxRecords)
    /\ data = [n \in 1..Len(origin) |-> [k \in 1..Len(origin[n]) |-> RecordOf(origin[n][k])]]
    /\ fl_pc = "loop"
    /\ nested_idx = 1
    /\ item_idx = 1
    /\ normalized_data = <<>>
    /\ key_value = UnboundKeyValue

\* one iteration of `for item in nested_list`
NormalizeItem ==
    /\ fl_pc = "loop"
    /\ nested_idx <= Len(data)
    /\ LET st == FlattenItem(data[nested_idx][item_idx], key_value) IN
        /\ key_value' = st.kv
        /\ IF st.raised
           THEN /\ fl_pc' = "raised"
                /\ UNCHANGED <<normalized_data, nested_idx, item_idx>>
           ELSE /\ normalized_data' = Append(normalized_data, st.flat)
                /\ fl_pc' = "loop"
                /\ IF item_idx < Len(data[nested_idx])
                   THEN item_idx' = item_idx + 1 /\ nested_idx' = nested_idx
                   ELSE item_idx' = 1 /\ nested_idx' = nested_idx + 1
    /\ UNCHANGED <<data, origin, base_url, pgvars, runvars, mivars, rcvars>>

\* return normalized_data
NormalizeReturn ==
    /\ fl_pc = "loop"
    /\ nested_idx > Len(data)
    /\ fl_pc' = "returned"
    /\ UNCHANGED <<data, origin, nested_idx, item_idx, normalized_data, key_value,
                   base_url, pgvars, runvars, mivars, rcvars>>

NormalizeNext == NormalizeItem \/ NormalizeReturn

SpecNormalize == NormalizeInit /\ [][NormalizeNext]_vars

(* ------ get_individual_ad_table_info and single_page_content ----------- *)

\* the headings a feature table may carry, as the page writes them
TableTitles == {"Costi", " Costi ", "Details", "Description"}

\* str.strip() of a heading or of a dt text
TextStrip(t) ==
    CASE t = " Costi " -> "Costi"
      [] t = " floor " -> "floor"
      [] OTHER -> t

\* str.lower() of a stripped heading
TextLower(t) ==
    CASE t = "Costi" -> "costi"
      [] t = "Details" -> "details"
      [] t = "Description" -> "description"
      [] OTHER -> t

\* a dd element: its text and the texts of the div elements inside it
Dd(text, divs) == [text |-> text, divs |-> divs]

\* the k-th dl element of a page: its dt and dd elements in document order. The
\* first shape has one dd per dt, the second a dt without a dd.
RawTable(k, shape) ==
    IF shape = 1
    THEN [dts |-> <<" floor ", "altre caratteristiche">>,
          dds |-> <<Dd(TableMark[k], <<>>), Dd("a", <<"a", TableMark[k]>>)>>]
    ELSE [dts |-> <<"title", "floor">>,
          dds |-> <<Dd(TableMark[k], <<>>)>>]

\* the detail pages: up to `most` headings and up to `most` dl elements, not
\* necessarily as many of one as of the other
DetailSoups(most) ==
    UNION { { [titles |-> t, tables |-> [k \in 1..m |-> RawTable(k, sh[k])]] :
                t \in [1..n -> TableTitles], sh \in [1..m -> 1..2] } :
            n \in 0..most, m \in 0..most }

Min(a, b) == IF a < b THEN a ELSE b

\* the inner loop over zip(left_column_content, right_column_content)
RECURSIVE TableInfoFrom(_, _, _)
TableInfoFrom(raw, n, table_info) ==
    IF n > Min(Len(raw.dts), Len(raw.dds))
    THEN table_info
    ELSE LET dt == TextStrip(raw.dts[n])
             dd == raw.dds[n]
         IN TableInfoFrom(raw, n + 1,
                DictSet(table_info, dt,
                        IF dt = "altre caratteristiche" THEN List(dd.divs)
                        ELSE Str(dd.text)))

\* individual_ad_scrapper has the soup of a detail page and its main info and
\* description; get_individual_ad_table_info is entered
RecordInit ==
    /\ base_url = RunBaseUrl
    /\ PgIdle
    /\ RunIdle
    /\ MiIdle
    /\ FlIdle
    /\ detail_soup \in DetailSoups(MaxTables)
    /\ rc_pc = "tables"
    /\ table_idx = 1
    /\ additional_info = <<>>
    /\ single_page_content = <<>>

\* one round of the loop over zip(table_titles, raw_tables)
TableInfoStep ==
    /\ rc_pc = "tables"
    /\ table_idx <= Min(Len(detail_soup.titles), Len(detail_soup.tables))
    /\ additional_info' =
           DictSet(additional_info,
                   TextLower(TextStrip(detail_soup.titles[table_idx])),
                   Dict(TableInfoFrom(detail_soup.tables[table_idx], 1, <<>>)))
    /\ table_idx' = table_idx + 1
    /\ UNCHANGED <<rc_pc, detail_soup, single_page_content,
                   base_url, pgvars, runvars, mivars, flvars>>

\* return additional_info, then single_page_content["details"] and
\* single_page_content["description"] are set
TableInfoReturn ==
    /\ rc_pc = "tables"
    /\ table_idx > Min(Len(detail_soup.titles), Len(detail_soup.tables))
    /\ single_page_content' =
           DictSet(DictSet(<<>>, "details", Dict(MainInfo)),
                   "description", Dict(DescriptionInfo))
    /\ table_idx' = 1
    /\ rc_pc' = "items"
    /\ UNCHANGED <<detail_soup, additional_info,
                   base_url, pgvars, runvars, mivars, flvars>>

\* one round of: for key, value in ad_table_info.items()
CopyTableInfo ==
    /\ rc_pc = "items"
    /\ table_idx <= Len(additional_info)
    /\ single_page_content' =
           DictSet(single_page_content, additional_info[table_idx][1],
                   additional_info[table_idx][2])
    /\ table_idx' = table_idx + 1
    /\ UNCHANGED <<rc_pc, detail_soup, additional_info,
                   base_url, pgvars, runvars, mivars, flvars>>

\* pages_content.append(single_page_content)
AppendContent ==
    /\ rc_pc = "items"
    /\ table_idx > Len(additional_info)
    /\ rc_pc' = "appended"
    /\ UNCHANGED <<detail_soup, table_idx, additional_info, single_page_content,
                   base_url, pgvars, runvars, mivars, flvars>>

RecordNext == TableInfoStep \/ TableInfoReturn \/ CopyTableInfo \/ AppendContent

SpecRecord == RecordInit /\ [][RecordNext]_vars

(* ------------------------- claims: paginate_urls ------------------------ *)

DigitValue(c) == CHOOSE d \in 0..9 : Digit[d + 1] = c

RECURSIVE StrToInt(_)
\* the number a string of decimal digits denotes
StrToInt(str) ==
    IF Len(str) = 0 THEN 0
    ELSE 10 * StrToInt(SubSeq(str, 1, Len(str) - 1)) + DigitValue(str[Len(str)])

IsNumeral(str) ==
    /\ Len(str) >= 1
    /\ \A n \in 1..Len(str) : \E d \in 1..10 : Digit[d] = str[n]
    /\ (Len(str) > 1 => str[1] # "0")

\* url is base followed by "&pag=" and the decimal numeral of k
IsPageOf(url, base, k) ==
    /\ Len(url) > Len(base) + Len(PagMarker)
    /\ SubSeq(url, 1, Len(base)) = base
    /\ SubSeq(url, Len(base) + 1, Len(base) + Len(PagMarker)) = PagMarker
    /\ IsNumeral(SubSeq(url, Len(base) + Len(PagMarker) + 1, Len(url)))
    /\ StrToInt(SubSeq(url, Len(base) + Len(PagMarker) + 1, Len(url))) = k

\* C6: for every base url and every num_pages n >= 1, paginate_urls(n) returns
\* n urls, the first the base url unchanged and the k-th (2 <= k <= n) the base
\* url followed by "&pag=k"; paginate_urls(1) is the base url alone.
C6_Paginator ==
    (pg_pc = "done" /\ pg_num_pages >= 1) =>
        /\ Len(pg_urls) = pg_num_pages
        /\ pg_urls[1] = base_url
        /\ \A k \in 2..pg_num_pages : IsPageOf(pg_urls[k], base_url, k)
        /\ (pg_num_pages = 1 => pg_urls = <<base_url>>)

C6_Witness ==
    /\ pg_pc = "done"
    /\ pg_num_pages >= 10
    /\ Len(pg_urls) = pg_num_pages

(* ------------------------- claims: the run ------------------------------ *)

Range(seq) == {seq[n] : n \in 1..Len(seq)}

RECURSIVE Concat(_)
\* the lists of a list of lists, one after the other
Concat(lists) ==
    IF Len(lists) = 0 THEN <<>> ELSE Head(lists) \o Concat(Tail(lists))

\* every record the run has accumulated so far, in order
Accumulated == Concat(entire_ad_info_dict)

\* individual_ad_scrapper has returned for the listing page visited last
PageReturned ==
    /\ pc \in {"main_loop", "done"}
    /\ listing_outcome = "links"

Succeeded(resp) == resp.fetch = "ok" /\ resp.missing = "none"

\* the output holds the record of the k-th url of the page visited last,
\* extracted from that url's own page
HasOwnRecord(k) ==
    \E r \in Range(Accumulated) :
        r.url = individual_ad_urls[k] /\ r.src = individual_ad_urls[k]

\* an extraction step failed on a page of the listing page visited last
ExtractionFailedAt(k) == responses[k].fetch = "ok" /\ responses[k].missing # "none"

FetchFailedAt(k) == responses[k].fetch = "raises"

\* C1: when the extraction of one DetailURL of a listing page fails (main info,
\* description or table step), the run still visits every other DetailURL of
\* that page, before and after the failing one, and the output holds the record
\* of every DetailURL of the page whose fetch and extraction succeeded.
C1_DetailFailureIsolated ==
    (/\ PageReturned
     /\ \E k \in 1..Len(responses) : ExtractionFailedAt(k)
     /\ \A k \in 1..Len(responses) : ~FetchFailedAt(k)) =>
        /\ Len(responses) = Len(individual_ad_urls)
        /\ \A k \in 1..Len(responses) : Succeeded(responses[k]) => HasOwnRecord(k)

\* C2: a DetailURL whose fetch failed contributes no record (in particular none
\* carrying its url with the content of another page), whether it is the first
\* url of its page or a later one, and the other DetailURLs of the page are
\* visited and keep their records.
C2_FetchFailureIsolated ==
    (/\ PageReturned
     /\ \E k \in 1..Len(responses) : FetchFailedAt(k)
     /\ \A k \in 1..Len(responses) : ~ExtractionFailedAt(k)) =>
        /\ \A k \in 1..Len(responses) :
              FetchFailedAt(k) =>
                  \A r \in Range(Accumulated) : r.url # individual_ad_urls[k]
        /\ Len(responses) = Len(individual_ad_urls)
        /\ \A k \in 1..Len(responses) : Succeeded(responses[k]) => HasOwnRecord(k)

RECURSIVE Collected(_)
\* what the listing pages of a log contributed: nothing for a failed page,
\* the list individual_ad_scrapper returned for the others
Collected(log) ==
    IF Len(log) = 0 THEN <<>>
    ELSE LET first == Head(log) IN
         (IF first.failed \/ first.details.none THEN <<>> ELSE <<first.details.list>>)
         \o Collected(Tail(log))

\* C3: a listing page that fails (request error, status other than 200, no
\* link found) is skipped: the run goes on to the next listing page, the
\* records of earlier pages are kept and those of later pages are collected,
\* so the result holds exactly what the pages that did not fail returned.
C3_ListingFailureIsolated ==
    /\ pc # "crashed"
    /\ Len(page_log) = i - 1
    /\ entire_ad_info_dict = Collected(page_log)
    /\ (pc = "done" => Len(page_log) = NumPages)

C3_Witness ==
    /\ pc = "done"
    /\ \E p \in 2..(NumPages - 1) :
        /\ page_log[p].failed
        /\ ~page_log[p - 1].failed /\ Len(page_log[p - 1].details.list) = 2
        /\ ~page_log[p + 1].failed /\ Len(page_log[p + 1].details.list) >= 1
    /\ Len(entire_ad_info_dict) >= 2

\* C4: whatever the listing pages and detail pages answer, main_scrapper ends
\* by returning its list of records, which may be empty; no exception leaves it.
C4_RunCompletes == <>(pc = "done")

C4_Witness ==
    /\ pc = "done"
    /\ entire_ad_info_dict = <<>>
    /\ \E p \in 1..NumPages : ~page_log[p].failed

Before(a, b) == a[1] < b[1] \/ (a[1] = b[1] /\ a[2] < b[2])

\* the urls of the records are in listing-page order, then link order
InVisitOrder(records) ==
    \A m, n \in 1..Len(records) : m < n => Before(records[m].url, records[n].url)

IsPrefix(a, b) == Len(a) <= Len(b) /\ SubSeq(b, 1, Len(a)) = a

\* C5: at every point of the run the accumulated records are in listing-page
\* order and, within a page, in the order of its links (one list per page, no
\* list holding records of two pages), and the accumulated records only grow
\* at the end.
C5_OutputOrdered ==
    /\ [](/\ InVisitOrder(Accumulated)
          /\ InVisitOrder(pages_content)
          /\ \A p \in 1..Len(entire_ad_info_dict) :
                \A r, t \in Range(entire_ad_info_dict[p]) : r.url[1] = t.url[1])
    /\ [][IsPrefix(entire_ad_info_dict, entire_ad_info_dict')]_vars

C5_Witness ==
    /\ Len(entire_ad_info_dict) >= 3
    /\ Len(entire_ad_info_dict[1]) >= 2
    /\ Len(entire_ad_info_dict[3]) >= 2

(* ------------------ claims: get_individual_ad_main_info ----------------- *)

\* the predicates of the rule table, on the text of a field and its optional
\* label: a rule on the label does not hold of a field without label
RuleHolds(rule, item) ==
    CASE rule = 1 -> In("€", item.text)
      [] rule = 2 -> item.labelled /\ (In("locali", item.label) \/ In("locale", item.label))
      [] rule = 3 -> In("m²", item.text)
      [] rule = 4 -> In("piano", item.text)
      [] rule = 5 -> In("bagni", item.text)
      [] rule = 6 -> In("classe", item.text)
      [] rule = 7 -> In("anno", item.text)
      [] rule = 8 -> In("stato", item.text)
      [] rule = 9 -> item.labelled /\ In("tipologie", item.label)
      [] OTHER -> TRUE

RuleSlot == <<"price", "rooms", "area", "floor", "bathrooms", "energy_class",
              "year", "state", "type", "other_info">>

FirstRule(item) == CHOOSE r \in 1..10 :
    RuleHolds(r, item) /\ \A q \in 1..(r - 1) : ~RuleHolds(q, item)

\* C7: every field is given the slot of the lowest-numbered rule whose
\* predicate holds of it, also when several predicates hold, and exactly one
\* slot is written for it.
C7_FirstMatchWins ==
    li.seen =>
        /\ mi_written = {RuleSlot[FirstRule(li)]}
        /\ DictHas(ad_main_info, RuleSlot[FirstRule(li)])

\* C8: a feature-list item without aria-label whose text matches none of the
\* rules 1-9 is given the slot other_info with its trimmed text unchanged, and
\* the extraction of the main info does not fail because of it.
C8_UnmatchedIsOtherInfo ==
    (li.seen /\ ~li.labelled /\ FirstRule(li) = 10) =>
        /\ mi_pc # "raised"
        /\ mi_written = {"other_info"}
        /\ DictHas(ad_main_info, "other_info")
        /\ DictGet(ad_main_info, "other_info") = Strip(li.text)

(* -------------------------- claims: normalize_data ---------------------- *)

\* the origins of the records of data, in the order normalize_data visits them
OriginList == Concat(origin)

\* the mappings of a page in the order the claim names: main info, description,
\* then the feature tables in the key order of ad_table_info
Sources(o) ==
    <<o.main, o.description>> \o [n \in 1..Len(o.tables) |-> o.tables[n][2].items]

\* the value of key in the last of the mappings that holds it
LastValue(sources, key) ==
    LET last == CHOOSE n \in 1..Len(sources) :
                    /\ DictHas(sources[n], key)
                    /\ \A m \in (n + 1)..Len(sources) : ~DictHas(sources[m], key)
    IN DictGet(sources[last], key)

\* C9: normalize_data handles main info, description, then the feature tables
\* in their key order, and a key that several of these mappings hold has, in
\* the row, the value of the one handled last (a table's floor beats the main
\* info's floor).
C9_LaterMappingWins ==
    \A n \in 1..Len(normalized_data) :
        OriginList[n].page =>
            \A key \in DictKeys(normalized_data[n]) :
                /\ \E m \in 1..Len(Sources(OriginList[n])) :
                      DictHas(Sources(OriginList[n])[m], key)
                /\ DictGet(normalized_data[n], key) = LastValue(Sources(OriginList[n]), key)

\* the records handed to normalize_data that it has been through
Visited ==
    IF fl_pc = "raised" THEN Len(normalized_data) + 1 ELSE Len(normalized_data)

\* C10: normalize_data never raises, returns one row per record, and a
\* top-level value that is a scalar or a list is in the row under its own key.
C10_FlatteningNeverFails ==
    /\ fl_pc # "raised"
    /\ (fl_pc = "returned" => Len(normalized_data) = Len(Concat(data)))
    /\ \A n \in 1..Len(normalized_data) :
          LET record == Concat(data)[n] IN
          \A k \in 1..Len(record) :
              record[k][2].kind # "dict" =>
                  /\ DictHas(normalized_data[n], record[k][1])
                  /\ DictGet(normalized_data[n], record[k][1]) = record[k][2]

(* -------------------- claims: single_page_content ---------------------- *)

\* C11: every record appended to the output holds, under the key "details",
\* the main info of its own page, whose url slot is the url the page was
\* fetched from, and under the key "description" the description info with
\* exactly the slots title and content, whatever the lower-cased headings of
\* the page's feature tables are.
C11_RecordIntegrity ==
    rc_pc = "appended" =>
        /\ DictHas(single_page_content, "details")
        /\ DictGet(single_page_content, "details") = Dict(MainInfo)
        /\ DictGet(DictGet(single_page_content, "details").items, "url") = Str("u")
        /\ DictHas(single_page_content, "description")
        /\ DictGet(single_page_content, "description") = Dict(DescriptionInfo)
        /\ DictKeys(DictGet(single_page_content, "description").items)
               = {"title", "content"}

====
